---- MODULE Spec2Model ----
(***************************************************************************)
(* TGV Tracker API: the FastAPI handlers of main.py and the data access    *)
(* and aggregation functions of supabase_utils.py.                         *)
(*                                                                         *)
(* The store (Supabase) is external: the rows it holds are drawn in Init,  *)
(* and each query may raise.  Delay values are integers, numeric strings,  *)
(* non-numeric strings or null; means are exact rationals (num/den) or NaN.*)
(* The formatted description strings and execution_time_ms of the response *)
(* envelope are not modelled; table_name is the default table.             *)
(***************************************************************************)
EXTENDS Integers, Sequences, FiniteSets, TLC

VARIABLES credentials, supabase, phase, table, last

vars == <<credentials, supabase, phase, table, last>>

----------------------------------------------------------------------------
(* Bounds and program constants *)

\* Longest record set drawn for one call of the aggregation.
MaxRecords == 3

\* Longest table held by the store while the server runs.
MaxTableRows == 1

LimitMin == 1

LimitMax == 100

DefaultLimit == 10

DefaultOrder == "asc"

NotInitializedMsg == "Supabase client not initialized"

NoDataMsg == "No National service data found"

StoreErrorMsg == "store error"

----------------------------------------------------------------------------
(* JSON values as the store returns them *)

None == [kind |-> "null"]

Num(n) == [kind |-> "num", num |-> n]

Str(s) == [kind |-> "str", str |-> s]

\* Station names in lexicographic order (the order groupby(sort=True) emits).
KeyOrder == <<"A", "B", "C">>

Stations == {KeyOrder[i] : i \in 1..Len(KeyOrder)}

StationValues == {Str(s) : s \in Stations} \cup {None}

DelayValues == {Num(10), Str("20"), Str("x"), None}

Rows == [gare_depart : StationValues, retard_moyen_depart : DelayValues]

RECURSIVE SeqsUpTo(_, _)
SeqsUpTo(S, n) ==
    IF n = 0 THEN {<<>>}
    ELSE LET shorter == SeqsUpTo(S, n - 1)
         IN  shorter \cup {Append(q, x) : q \in {r \in shorter : Len(r) = n - 1}, x \in S}

\* Decimal literals and the integers they denote.
DecimalValue ==
    ("0" :> 0) @@ ("1" :> 1) @@ ("2" :> 2) @@ ("20" :> 20) @@
    ("100" :> 100) @@ ("101" :> 101)

----------------------------------------------------------------------------
(* Floating-point values: an exact rational, or NaN *)

NaN == [nan |-> TRUE, num |-> 0, den |-> 1]

RECURSIVE GCD(_, _)
GCD(a, b) == IF b = 0 THEN a ELSE GCD(b, a % b)

Abs(x) == IF x < 0 THEN -x ELSE x

Rat(n, d) ==
    LET g == GCD(Abs(n), d)
    IN  [nan |-> FALSE, num |-> n \div g, den |-> d \div g]

\* IEEE comparisons: every comparison with NaN is false.
Le(a, b) == ~a.nan /\ ~b.nan /\ a.num * b.den <= b.num * a.den

Ge(a, b) == Le(b, a)

Lt(a, b) == ~a.nan /\ ~b.nan /\ a.num * b.den < b.num * a.den

----------------------------------------------------------------------------
(* The pandas pipeline of get_avg_delay_by_station *)

\* pd.to_numeric(..., errors='coerce') on one cell: a number is kept, a
\* string is parsed, anything that does not parse (and null) becomes NaN.
to_numeric(v) ==
    IF v.kind = "num" THEN Rat(v.num, 1)
    ELSE IF v.kind = "str" /\ v.str \in DOMAIN DecimalValue
         THEN Rat(DecimalValue[v.str], 1)
         ELSE NaN

\* df.groupby('gare_depart'): the distinct non-null keys, in sorted key
\* order (sort=True, dropna=True are the defaults).
groupby(df) ==
    SelectSeq(KeyOrder,
              LAMBDA k : \E i \in 1..Len(df) : df[i].gare_depart = Str(k))

\* The coerced column of one group, in row order.
GroupColumn(df, k) ==
    LET rows == SelectSeq(df, LAMBDA r : r.gare_depart = Str(k))
    IN  [i \in 1..Len(rows) |-> to_numeric(rows[i].retard_moyen_depart)]

RECURSIVE SumNum(_)
SumNum(col) == IF Len(col) = 0 THEN 0 ELSE col[1].num + SumNum(Tail(col))

\* A mean that divides by the number of rows of the group, unparseable
\* ones included.
mean_over_all_rows(col) ==
    LET kept == SelectSeq(col, LAMBDA x : ~x.nan)
    IN  IF Len(kept) = 0 THEN NaN ELSE Rat(SumNum(kept), Len(col))

\* Series.mean() of one group: NaN cells are skipped (skipna=True); a group
\* with no cell left has mean NaN and stays in the frame.
mean(col) ==
    LET kept == SelectSeq(col, LAMBDA x : ~x.nan)
    IN  IF Len(kept) = 0 THEN NaN ELSE Rat(SumNum(kept), Len(kept))

\* .groupby(...)[...].mean().reset_index(): one row per group.
GroupMeans(df) ==
    LET keys == groupby(df)
    IN  [i \in 1..Len(keys) |->
            [gare_depart |-> keys[i],
             retard_moyen_depart |-> mean(GroupColumn(df, keys[i]))]]

Injective(p) == \A i, j \in DOMAIN p : p[i] = p[j] => i = j

\* .sort_values(col, ascending=...): kind='quicksort' is not stable, so
\* rows with equal means may come out in any relative order; NaN rows are
\* placed last in frame order for both directions (na_position='last').
sort_values(frame, ascending) ==
    LET valid == SelectSeq(frame, LAMBDA r : ~r.retard_moyen_depart.nan)
        nans  == SelectSeq(frame, LAMBDA r : r.retard_moyen_depart.nan)
        n     == Len(valid)
        InOrder(p) ==
            \A i \in 1..(n - 1) :
                IF ascending
                THEN Le(valid[p[i]].retard_moyen_depart,
                        valid[p[i + 1]].retard_moyen_depart)
                ELSE Ge(valid[p[i]].retard_moyen_depart,
                        valid[p[i + 1]].retard_moyen_depart)
    IN  {[i \in 1..n |-> valid[p[i]]] \o nans :
            p \in {q \in [1..n -> 1..n] : Injective(q) /\ InOrder(q)}}

Min(a, b) == IF a <= b THEN a ELSE b

Max(a, b) == IF a >= b THEN a ELSE b

\* DataFrame.head(n): the first n rows; all but the last -n rows if n < 0.
head(frame, n) ==
    IF n >= 0 THEN SubSeq(frame, 1, Min(n, Len(frame)))
    ELSE SubSeq(frame, 1, Max(Len(frame) + n, 0))

\* str.lower() on the order strings that occur.
lower(s) == IF s = "ASC" THEN "asc" ELSE IF s = "DESC" THEN "desc" ELSE s

----------------------------------------------------------------------------
(* supabase_utils.py *)

\* An initialization that creates the client whatever the environment holds.
initialize_supabase_unconditional(creds) == "Client"

\* initialize_supabase(): the value of the global handle afterwards.
initialize_supabase(creds) == IF creds THEN "Client" ELSE "None"

\* check_table_exists(): number of store queries it issues; an exception
\* of the store is caught and logged.
check_table_exists(client) == IF client = "None" THEN 0 ELSE 1

NotInitialized == [error |-> NotInitializedMsg]

NoData == [data |-> <<>>, message |-> NoDataMsg]

QueryError == [error |-> StoreErrorMsg]

\* The payload built at the end of get_avg_delay_by_station.
Aggregated(frame, limit, order) ==
    LET ascending   == lower(order) = "asc"
        result_data == head(frame, limit)
    IN  [data           |-> result_data,
         count          |-> Len(result_data),
         table_name     |-> "tgv-data",
         order          |-> order,
         service_filter |-> "National",
         description    |-> [limit      |-> limit,
                             order_desc |-> IF ascending THEN "lowest"
                                                         ELSE "highest"]]

\* get_avg_delay_by_station(table_name, limit, order): the payloads it can
\* return, each with the number of store queries issued.  raises says
\* whether execute() raised; the exception is caught and returned as a payload.
get_avg_delay_by_station(client, data, raises, limit, order) ==
    IF client = "None"
    THEN {[result |-> NotInitialized, store_queries |-> 0, store_raised |-> FALSE]}
    ELSE IF raises
    THEN {[result |-> QueryError, store_queries |-> 1, store_raised |-> TRUE]}
    ELSE IF data = <<>>
    THEN {[result |-> NoData, store_queries |-> 1, store_raised |-> FALSE]}
    ELSE {[result |-> Aggregated(f, limit, order), store_queries |-> 1,
           store_raised |-> FALSE] :
            f \in sort_values(GroupMeans(data), lower(order) = "asc")}

\* get_table_info(): the value returned, or the exception of execute()
\* leaving the function (there is no try block).
get_table_info(client, data, raises) ==
    IF client = "None"
    THEN [raised |-> FALSE, store_queries |-> 0, store_raised |-> FALSE,
          value |-> [exists |-> FALSE, error |-> NotInitializedMsg]]
    ELSE IF raises
    THEN [raised |-> TRUE, store_queries |-> 1, store_raised |-> TRUE,
          value |-> None]
    ELSE [raised |-> FALSE, store_queries |-> 1, store_raised |-> FALSE,
          value |-> Num(Len(data))]

----------------------------------------------------------------------------
(* main.py: query parameters and their validation *)

Absent == [present |-> FALSE, raw |-> ""]

Given(s) == [present |-> TRUE, raw |-> s]

LimitParams == {Absent} \cup {Given(s) : s \in {"0", "1", "2", "100", "101", "abc"}}

OrderParams == {Absent} \cup {Given(s) : s \in {"asc", "desc", "ascending", "ASC"}}

NoQuery == [limit |-> Absent, order |-> Absent]

\* A limit check without the upper bound.
limit_ok_no_upper_bound(p) ==
    \/ ~p.present
    \/ /\ p.raw \in DOMAIN DecimalValue
       /\ DecimalValue[p.raw] >= LimitMin

\* limit: int = Query(default=10, ge=1, le=100)
limit_ok(p) ==
    \/ ~p.present
    \/ /\ p.raw \in DOMAIN DecimalValue
       /\ DecimalValue[p.raw] >= LimitMin
       /\ DecimalValue[p.raw] <= LimitMax

limit_value(p) == IF p.present THEN DecimalValue[p.raw] ELSE DefaultLimit

\* order: Literal["asc", "desc"] = Query(default="asc")
order_ok(p) == ~p.present \/ p.raw \in {"asc", "desc"}

order_value(p) == IF p.present THEN p.raw ELSE DefaultOrder

NoCall == [called |-> FALSE, limit |-> 0, order |-> ""]

\* One handled request: what came in, how the handler ended ("rejected" by
\* parameter validation, "returned" a value, or "raised"), what it returned,
\* the store queries it issued, whether the store raised, and the call of
\* get_avg_delay_by_station it made.
Response(endpoint, query, outcome, body, queries, store_raised, engine) ==
    [endpoint |-> endpoint, query |-> query, outcome |-> outcome,
     body |-> body, store_queries |-> queries, store_raised |-> store_raised,
     engine |-> engine]

----------------------------------------------------------------------------
(* State machine *)

Init ==
    /\ credentials \in BOOLEAN
    /\ supabase = "None"
    /\ phase = "loaded"
    /\ table \in SeqsUpTo(Rows, MaxTableRows)
    /\ last = Response("none", NoQuery, "none", None, 0, FALSE, NoCall)

\* startup_event(): initialize_supabase() then check_table_exists().
\* create_client may raise, and then the application does not start.
startup_event ==
    /\ phase = "loaded"
    /\ \E create_raises \in BOOLEAN :
         IF credentials /\ create_raises
         THEN /\ phase' = "startup_failed"
              /\ supabase' = supabase
              /\ last' = Response("startup", NoQuery, "raised", None, 0, FALSE, NoCall)
         ELSE /\ phase' = "serving"
              /\ supabase' = initialize_supabase(credentials)
              /\ last' = Response("startup", NoQuery, "returned", None,
                                  check_table_exists(supabase'), FALSE, NoCall)
    /\ UNCHANGED <<credentials, table>>

shutdown_event ==
    /\ phase = "serving"
    /\ phase' = "stopped"
    /\ last' = Response("shutdown", NoQuery, "returned", None, 0, FALSE, NoCall)
    /\ UNCHANGED <<credentials, supabase, table>>

root ==
    /\ phase = "serving"
    /\ last' = Response("/", NoQuery, "returned",
                        [message |-> "Welcome to TGV Tracker API"], 0, FALSE,
                        NoCall)
    /\ UNCHANGED <<credentials, supabase, phase, table>>

health_check ==
    /\ phase = "serving"
    /\ last' = Response("/health", NoQuery, "returned",
                        [status |-> "healthy"], 0, FALSE, NoCall)
    /\ UNCHANGED <<credentials, supabase, phase, table>>

get_count_rows ==
    /\ phase = "serving"
    /\ \E raises \in BOOLEAN :
         LET table_info == get_table_info(supabase, table, raises)
         IN  last' = Response("/api/count_rows", NoQuery,
                              IF table_info.raised THEN "raised" ELSE "returned",
                              IF table_info.raised THEN None
                              ELSE [row_count |-> table_info.value],
                              table_info.store_queries,
                              table_info.store_raised, NoCall)
    /\ UNCHANGED <<credentials, supabase, phase, table>>

get_delays ==
    /\ phase = "serving"
    /\ \E lp \in LimitParams, op \in OrderParams :
         LET query == [limit |-> lp, order |-> op]
         IN  IF ~(limit_ok(lp) /\ order_ok(op))
             THEN last' = Response("/api/delays", query, "rejected", None, 0,
                                  FALSE, NoCall)
             ELSE LET limit == limit_value(lp)
                      order == order_value(op)
                  IN  \E raises \in BOOLEAN :
                      \E r \in get_avg_delay_by_station(supabase, table, raises,
                                                       limit, order) :
                        last' = Response("/api/delays", query, "returned",
                                         [method |-> "pandas",
                                          table_name |-> "tgv-data",
                                          limit |-> limit,
                                          order |-> order,
                                          result |-> r.result],
                                         r.store_queries, r.store_raised,
                                         [called |-> TRUE, limit |-> limit,
                                          order |-> order])
    /\ UNCHANGED <<credentials, supabase, phase, table>>

Next ==
    \/ startup_event
    \/ shutdown_event
    \/ root
    \/ health_check
    \/ get_count_rows
    \/ get_delays

Spec == Init /\ [][Next]_vars

----------------------------------------------------------------------------
(* One call of get_avg_delay_by_station on an initialized client, over     *)
(* every record set of up to MaxRecords rows.                              *)

CallLimits == {1, 2, LimitMax}

CallOrders == {"asc", "desc"}

InitCall ==
    /\ credentials = TRUE
    /\ supabase = "Client"
    /\ phase = "serving"
    /\ table \in SeqsUpTo(Rows, MaxRecords)
    /\ last = Response("none", NoQuery, "none", None, 0, FALSE, NoCall)

call_get_avg_delay_by_station ==
    /\ last.endpoint = "none"
    /\ \E limit \in CallLimits, order \in CallOrders, raises \in BOOLEAN :
       \E r \in get_avg_delay_by_station(supabase, table, raises, limit, order) :
         last' = Response("get_avg_delay_by_station", NoQuery, "returned",
                          r.result, r.store_queries, r.store_raised,
                          [called |-> TRUE, limit |-> limit, order |-> order])
    /\ UNCHANGED <<credentials, supabase, phase, table>>

NextCall == call_get_avg_delay_by_station

SpecCall == InitCall /\ [][NextCall]_vars

----------------------------------------------------------------------------
(* Vocabulary of the properties *)

\* The last handled request was a get_avg_delay_by_station call that
\* returned, made directly or through GET /api/delays.
DelaysReturned ==
    /\ last.outcome = "returned"
    /\ last.endpoint \in {"/api/delays", "get_avg_delay_by_station"}

\* What get_avg_delay_by_station returned.
Payload == IF last.endpoint = "/api/delays" THEN last.body.result ELSE last.body

HasData == DelaysReturned /\ "data" \in DOMAIN Payload

\* The store answered the query with at least one record.
Fetched == DelaysReturned /\ last.store_queries = 1 /\ ~last.store_raised

AscendingRequested == last.engine.order = "asc"

\* A delay value that is a number or a string denoting one.
IsNumber(v) ==
    \/ v.kind = "num"
    \/ v.kind = "str" /\ v.str \in {"0", "1", "2", "20", "100", "101"}

NumberOf(v) == IF v.kind = "num" THEN v.num ELSE DecimalValue[v.str]

\* Indices of the records of station s that carry a number.
NumberRows(s) ==
    {i \in 1..Len(table) :
        table[i].gare_depart = Str(s) /\ IsNumber(table[i].retard_moyen_depart)}

RECURSIVE SumRows(_)
SumRows(I) ==
    IF I = {} THEN 0
    ELSE LET i == CHOOSE x \in I : TRUE
         IN  NumberOf(table[i].retard_moyen_depart) + SumRows(I \ {i})

ValidStations == {s \in Stations : NumberRows(s) # {}}

StationAt(i) == Payload.data[i].gare_depart

MeanAt(i) == Payload.data[i].retard_moyen_depart

InResult == {StationAt(i) : i \in 1..Len(Payload.data)}

\* m is the exact arithmetic mean of the numbers of station s.
IsMeanOf(m, s) ==
    /\ ~m.nan
    /\ m.num * Cardinality(NumberRows(s)) = SumRows(NumberRows(s)) * m.den

\* a is strictly better than b in the requested direction.
Better(a, b) == IF AscendingRequested THEN Lt(a, b) ELSE Lt(b, a)

FirstSeen(s) ==
    CHOOSE i \in 1..Len(table) :
        /\ table[i].gare_depart = Str(s)
        /\ \A j \in 1..(i - 1) : table[j].gare_depart # Str(s)

----------------------------------------------------------------------------
(* Properties of get_avg_delay_by_station (SpecCall) *)

\* C1: the returned sequence is sorted by mean delay: every adjacent pair
\* satisfies mean[i] <= mean[i+1] when ascending and mean[i] >= mean[i+1]
\* when descending.
C1_SortedByMean ==
    HasData =>
        \A i \in 1..(Len(Payload.data) - 1) :
            IF AscendingRequested
            THEN Le(MeanAt(i), MeanAt(i + 1))
            ELSE Ge(MeanAt(i), MeanAt(i + 1))

\* C2: a station whose records all carry an unparseable delay never appears
\* in the output; when every fetched record is unparseable the sequence is
\* empty and count is 0.
C2_UnparseableStationsAbsent ==
    (HasData /\ table # <<>>) =>
        /\ \A i \in 1..Len(Payload.data) : StationAt(i) \in ValidStations
        /\ (\A i \in 1..Len(table) : ~IsNumber(table[i].retard_moyen_depart))
              => (Payload.data = <<>> /\ Payload.count = 0)

\* C3: for a non-empty record set the length of the returned sequence is
\* min(number of stations with a parseable delay, limit), and count is
\* that length.
C3_LengthIsMinValidLimit ==
    (HasData /\ table # <<>>) =>
        /\ Len(Payload.data) = Min(Cardinality(ValidStations), last.engine.limit)
        /\ Payload.count = Len(Payload.data)

\* C4: the result is the first `limit` entries of the sorted list of valid
\* station means: it holds valid stations only, min(valid, limit) of them,
\* each once, and no valid station left out is strictly better than one
\* that is in.
C4_TruncatedAfterSortAndDrop ==
    (HasData /\ table # <<>>) =>
        /\ \A i \in 1..Len(Payload.data) :
              StationAt(i) \in ValidStations /\ IsMeanOf(MeanAt(i), StationAt(i))
        /\ Cardinality(InResult) = Len(Payload.data)
        /\ Len(Payload.data) = Min(Cardinality(ValidStations), last.engine.limit)
        /\ \A s \in ValidStations \ InResult :
              \A i \in 1..Len(Payload.data) :
                  ~Better(Rat(SumRows(NumberRows(s)), Cardinality(NumberRows(s))),
                          MeanAt(i))

\* C5: every reported mean is the arithmetic mean of exactly the parseable
\* delay values of its station (a null or non-numeric value changes neither
\* sum nor divisor; a station with none reports NaN), and whenever the store
\* answered with records the call returns an aggregation, not an error.
C5_MeanOfParseableValues ==
    /\ (Fetched /\ table # <<>>) => (HasData /\ "error" \notin DOMAIN Payload)
    /\ (HasData /\ table # <<>>) =>
          \A i \in 1..Len(Payload.data) :
              IF StationAt(i) \in ValidStations
              THEN IsMeanOf(MeanAt(i), StationAt(i))
              ELSE MeanAt(i).nan

\* A station with two parseable values and an unparseable one is reported.
C5_Witness ==
    /\ HasData
    /\ \E i \in 1..Len(Payload.data) :
          /\ Cardinality(NumberRows(StationAt(i))) = 2
          /\ \E j \in 1..Len(table) :
                /\ table[j].gare_depart = Str(StationAt(i))
                /\ ~IsNumber(table[j].retard_moyen_depart)
          /\ MeanAt(i) = Rat(15, 1)

\* C6: stations with exactly equal means appear in the order in which they
\* were first encountered in the fetched records, in both directions.
C6_TiesInFirstSeenOrder ==
    HasData =>
        \A i, j \in 1..Len(Payload.data) :
            (i < j /\ ~MeanAt(i).nan /\ MeanAt(i) = MeanAt(j))
                => FirstSeen(StationAt(i)) < FirstSeen(StationAt(j))

----------------------------------------------------------------------------
(* Properties of the request handlers (Spec) *)

\* C7: when the query succeeds with zero records the call returns a
\* non-error result with an empty sequence, a count equal to 0 and a
\* message, distinguishable from the error payloads.
C7_EmptyResultHasCountZero ==
    (Fetched /\ table = <<>>) =>
        /\ "error" \notin DOMAIN Payload
        /\ "data" \in DOMAIN Payload /\ Payload.data = <<>>
        /\ "message" \in DOMAIN Payload
        /\ "count" \in DOMAIN Payload /\ Payload.count = 0

\* C8: for /api/delays and /api/count_rows an exception raised by the store
\* never leaves the handler: the handler returns with an error payload, and
\* a handler that does not return was rejected by parameter validation.
C8_StoreExceptionsBecomePayloads ==
    last.endpoint \in {"/api/delays", "/api/count_rows"} =>
        /\ last.store_raised =>
              /\ last.outcome = "returned"
              /\ last.endpoint = "/api/delays" => "error" \in DOMAIN last.body.result
        /\ last.outcome # "returned" => last.outcome = "rejected"

\* C9: once startup has completed without credentials the client handle is
\* uninitialized from then on, and every /api/delays request returns the
\* 'client not initialized' error payload with no store query and no
\* aggregation; that payload is not the zero-rows payload.
C9_NoCredentialsNeverQueries ==
    (phase \in {"serving", "stopped"} /\ ~credentials) =>
        /\ supabase = "None"
        /\ (last.endpoint = "/api/delays" /\ last.outcome = "returned") =>
              /\ last.body.result = NotInitialized
              /\ last.store_queries = 0
              /\ "data" \notin DOMAIN last.body.result
              /\ "count" \notin DOMAIN last.body.result
              /\ last.body.result # NoData

\* A valid /api/delays request answered without credentials.
C9_Witness ==
    /\ phase = "serving" /\ ~credentials
    /\ last.endpoint = "/api/delays" /\ last.outcome = "returned"
    /\ last.engine.called
    /\ last.body.result.error = NotInitializedMsg

\* C10: a /api/delays request with limit outside [1,100] or order outside
\* {asc, desc} is rejected before get_avg_delay_by_station is called and
\* before any store access; every other request reaches it with exactly
\* the requested limit and direction (10 and asc when left out).
C10_ValidatedBeforeAggregation ==
    last.endpoint = "/api/delays" =>
        LET lp == last.query.limit
            op == last.query.order
            limit_inside ==
                lp.present =>
                    /\ lp.raw \in DOMAIN DecimalValue
                    /\ DecimalValue[lp.raw] \in 1..100
            order_inside == op.present => op.raw \in {"asc", "desc"}
        IN  IF limit_inside /\ order_inside
            THEN /\ last.outcome = "returned"
                 /\ last.engine.called
                 /\ last.engine.limit =
                       IF lp.present THEN DecimalValue[lp.raw] ELSE 10
                 /\ last.engine.order = IF op.present THEN op.raw ELSE "asc"
                 /\ "description" \in DOMAIN last.body.result =>
                       /\ last.body.result.description.limit = last.engine.limit
                       /\ last.body.result.description.order_desc = "highest"
                             <=> (op.present /\ op.raw = "desc")
            ELSE /\ last.outcome = "rejected"
                 /\ ~last.engine.called
                 /\ last.store_queries = 0

\* A request with limit 101 rejected while the client is initialized.
C10_Witness ==
    /\ supabase = "Client"
    /\ last.endpoint = "/api/delays"
    /\ last.query.limit = Given("101")
    /\ last.query.order = Given("desc")
    /\ last.outcome = "rejected"

====
